---- MODULE Spec2Model ----
(***************************************************************************)
(* zp-cache: the LFU engine with aging (ZPLfuCache.h) and the ARC engine   *)
(* (zp-arcCache/).  Every public operation is one action; the private      *)
(* helpers are operators named as in the source, taking and returning the  *)
(* object they mutate.                                                     *)
(***************************************************************************)
EXTENDS Integers, Sequences, FiniteSets, TLC

VARIABLES lfu, lfuRes, arc, threads

vars == <<lfu, lfuRes, arc, threads>>

\* ------------------------------------------------------------------------
\* Inputs
\* ------------------------------------------------------------------------

\* Key and Value are template parameters; three keys and two values.
Keys == {"a", "b", "c"}

Values == {"x", "y"}

\* "no key" / "no value": an absent map entry, an out-parameter left unwritten.
NoKey == "nokey"

NoValue == "novalue"

\* How many accesses past the first aging trigger, (maxAverageNum_+1)*capacity_,
\* the running total curTotalNum_ is followed.
MaxOverrun == 4

\* The (capacity, maxAverageNum) pairs the LFU engine is constructed with.
LfuConfigs == {<<0, 2>>, <<1, 2>>, <<2, 2>>, <<2, 5>>}

\* The (capacity, transformThreshold) pairs the ARC engine is constructed with.
ArcConfigs == {<<0, 2>>, <<1, 2>>, <<1, 3>>, <<2, 2>>, <<2, 3>>}

\* The value the ARC engine is written with.
ArcValues == {"x"}

\* The access counts of the ARC nodes are followed up to this value.
MaxAccessCount == 2

\* The ghost lists are followed up to this many linked nodes.
MaxGhostList == 2

\* The same bound in the run with long ghost lists, and that run's configuration.
LongGhostList == 3

ArcGhostConfigs == {<<2, 2>>}

\* The configurations of the LFU engine called by two threads, with the keys
\* LongKeys and the values LongValues.
LfuThreadConfigs == {<<1, 2>>, <<2, 2>>}

\* The configurations of the ARC engine called by two threads, and the number
\* of calls made one after the other before the two threads call together.
ArcThreadConfigs == {<<1, 2>>, <<2, 2>>}

PrefixLen == 2

\* The configurations of the run of both engines side by side.
ZeroLfuConfigs == {<<0, 2>>}

ZeroArcConfigs == {<<0, 2>>, <<1, 2>>}

\* The aging run of the LFU engine: three keys at capacity 3 and maxAverageNum
\* 4, read ScenarioGets times after they were written.
LfuAgingConfigs == {<<3, 4>>}

ScenarioGets == 20

\* The run of the ARC engine with two values, where an overwrite shows.
ArcValueConfigs == {<<1, 2>>, <<2, 2>>}

TwoValues == {"x", "y"}

\* The run of the ARC engine whose LFU part holds three keys of three
\* different frequencies: capacity 3, four keys, access counts up to
\* MaxWarmCount in the LFU part (MaxAccessCount in the LRU part), ghost lists of up to WarmGhostList nodes.
WarmConfigs == {<<3, 2>>}

WarmKeys == {"a", "b", "c", "d"}

MaxWarmCount == 4

WarmGhostList == 1

\* A cache of one entry whose frequency can pass INT8_MAX before it is aged:
\* capacity 1 and maxAverageNum 253, used with two keys and one value.
LfuLongConfigs == {<<1, 253>>}

LongKeys == {"a", "b"}

LongValues == {"x"}

\* Orders in which an unordered_map holding the keys S may be iterated.
KeyOrders(S) == {s \in [1..Cardinality(S) -> S] : \A i, j \in 1..Cardinality(S) : s[i] = s[j] => i = j}

EmptyMap == [k \in {} |-> 0]

RemoveAt(s, i) == [j \in 1..(Len(s) - 1) |-> IF j < i THEN s[j] ELSE s[j + 1]]

SetMin(S) == CHOOSE x \in S : \A y \in S : x <= y

\* ------------------------------------------------------------------------
\* ZPLfuCache.h
\* ------------------------------------------------------------------------

INT8_MAX == 127

\* FreqList::Node(key, value): freq starts at 1.
Node(value) == [freq |-> 1, value |-> value]

\* A node linked into a FreqList.  live = TRUE: it is the node nodeMap_[key]
\* points to; live = FALSE: nodeMap_ no longer points to it (its key was
\* erased from the map while it stayed linked).
Linked(key) == [key |-> key, live |-> TRUE]

\* The constructor.  crashed records a null FreqList* dereference.
ZPLfuCache(capacity, maxAverageNum) ==
    [capacity_ |-> capacity, minFreq_ |-> INT8_MAX, maxAverageNum_ |-> maxAverageNum,
     curAverageNum_ |-> 0, curTotalNum_ |-> 0,
     nodeMap_ |-> EmptyMap, freqToFreqList_ |-> EmptyMap, crashed |-> FALSE]

\* FreqList::isEmpty
isEmpty(list) == list = <<>>

\* FreqList::addNode: link before the tail sentinel.
addNode(list, node) == Append(list, node)

\* FreqList::removeNode of the live node of `key`.
removeNode(list, key) ==
    IF \E i \in 1..Len(list) : list[i] = Linked(key)
    THEN RemoveAt(list, CHOOSE i \in 1..Len(list) : list[i] = Linked(key))
    ELSE list

\* nodeMap_.erase(key): the node, if still linked, stays in its list.
eraseKey(c, key) ==
    IF key \notin DOMAIN c.nodeMap_ THEN c
    ELSE [c EXCEPT !.nodeMap_ = [k \in DOMAIN c.nodeMap_ \ {key} |-> c.nodeMap_[k]],
                   !.freqToFreqList_ = [f \in DOMAIN c.freqToFreqList_ |->
                        [i \in 1..Len(c.freqToFreqList_[f]) |->
                            IF c.freqToFreqList_[f][i] = Linked(key)
                            THEN [key |-> key, live |-> FALSE]
                            ELSE c.freqToFreqList_[f][i]]]]

\* curTotalNum_ / nodeMap_.size(), or 0 for an empty map (lines 245-248, 261-264).
average(c) ==
    IF DOMAIN c.nodeMap_ = {} THEN 0
    ELSE c.curTotalNum_ \div Cardinality(DOMAIN c.nodeMap_)

\* freqToFreqList_ with the list of `freq` replaced.
setList(c, freq, list) ==
    [c EXCEPT !.freqToFreqList_ = [f \in DOMAIN c.freqToFreqList_ \cup {freq} |->
                                      IF f = freq THEN list ELSE c.freqToFreqList_[f]]]

\* nodeMap_ with the node of `key` replaced (or added).
setNode(c, key, node) ==
    [c EXCEPT !.nodeMap_ = [k \in DOMAIN c.nodeMap_ \cup {key} |->
                               IF k = key THEN node ELSE c.nodeMap_[k]]]

removeFromFreqList(c, key) ==
    LET freq == c.nodeMap_[key].freq
    IN  setList(c, freq, removeNode(c.freqToFreqList_[freq], key))

addToFreqList(c, key) ==
    LET freq == c.nodeMap_[key].freq
        list == IF freq \in DOMAIN c.freqToFreqList_ THEN c.freqToFreqList_[freq] ELSE <<>>
    IN  setList(c, freq, addNode(list, Linked(key)))

\* updateMinFreq: the least key of a non-empty list below INT8_MAX, else 1.
updateMinFreq(c) ==
    LET nonEmpty == {f \in DOMAIN c.freqToFreqList_ : ~isEmpty(c.freqToFreqList_[f])}
        least    == SetMin(nonEmpty \cup {INT8_MAX})
    IN  [c EXCEPT !.minFreq_ = IF least = INT8_MAX THEN 1 ELSE least]

\* An aging loop that lets a frequency fall below 1.
RECURSIVE ageNodes_NoFloor(_, _, _)
ageNodes_NoFloor(c, order, i) ==
    IF i > Len(order) THEN c
    ELSE IF order[i] \notin DOMAIN c.nodeMap_ THEN ageNodes_NoFloor(c, order, i + 1)
    ELSE LET key     == order[i]
             removed == removeFromFreqList(c, key)
             lowered == removed.nodeMap_[key].freq - (c.maxAverageNum_ \div 2)
             aged    == setNode(removed, key, [removed.nodeMap_[key] EXCEPT !.freq = lowered])
         IN  ageNodes_NoFloor(addToFreqList(aged, key), order, i + 1)

\* One step of the loop of handleOverMaxAverageNum, for the nodes of order[i..].
RECURSIVE ageNodes(_, _, _)
ageNodes(c, order, i) ==
    IF i > Len(order) THEN c
    ELSE IF order[i] \notin DOMAIN c.nodeMap_ THEN ageNodes(c, order, i + 1)
    ELSE LET key     == order[i]
             removed == removeFromFreqList(c, key)
             lowered == removed.nodeMap_[key].freq - (c.maxAverageNum_ \div 2)
             aged    == setNode(removed, key, [removed.nodeMap_[key] EXCEPT !.freq = IF lowered < 1 THEN 1 ELSE lowered])
         IN  ageNodes(addToFreqList(aged, key), order, i + 1)

\* An aging pass that also recounts curTotalNum_ from the lowered frequencies.
handleOverMaxAverageNum_Recount(c, order) ==
    IF DOMAIN c.nodeMap_ = {} THEN c
    ELSE LET aged == updateMinFreq(ageNodes(c, order, 1))
         IN  [aged EXCEPT !.curTotalNum_ = Cardinality({<<key, n>> \in (DOMAIN aged.nodeMap_) \X (1..c.curTotalNum_) :
                                                            n <= aged.nodeMap_[key].freq})]

\* handleOverMaxAverageNum, the map iterated in `order`.
handleOverMaxAverageNum(c, order) ==
    IF DOMAIN c.nodeMap_ = {} THEN c
    ELSE updateMinFreq(ageNodes(c, order, 1))

\* addFreqNum: the states it may leave, one per iteration order of nodeMap_
\* when it ages.
addFreqNum(c) ==
    LET counted == [c EXCEPT !.curTotalNum_ = @ + 1]
        avg     == [counted EXCEPT !.curAverageNum_ = average(counted)]
    IN  IF avg.curAverageNum_ > avg.maxAverageNum_
        THEN {handleOverMaxAverageNum(avg, order) : order \in KeyOrders(DOMAIN avg.nodeMap_)}
        ELSE {avg}

decreaseFreqNum(c, num) ==
    LET lowered == [c EXCEPT !.curTotalNum_ = @ - num]
    IN  [lowered EXCEPT !.curAverageNum_ = average(lowered)]

\* getInternal: the states it may leave.
getInternal(c, key) ==
    LET removed == removeFromFreqList(c, key)
        bumped  == setNode(removed, key, [removed.nodeMap_[key] EXCEPT !.freq = @ + 1])
        added   == addToFreqList(bumped, key)
        freq    == added.nodeMap_[key].freq
        moved   == IF freq - 1 = added.minFreq_ /\ isEmpty(added.freqToFreqList_[freq - 1])
                   THEN [added EXCEPT !.minFreq_ = @ + 1]
                   ELSE added
    IN  addFreqNum(moved)

\* kickOut: the states it may leave.  getFirstNode() of an empty list is the
\* tail sentinel: a node of freq 1 which removeNode leaves alone (its next is
\* null) and whose key was never initialised, so that nodeMap_.erase may be
\* given any key, resident or not.
kickOut(c) ==
    IF c.minFreq_ \notin DOMAIN c.freqToFreqList_ THEN {[c EXCEPT !.crashed = TRUE]}
    ELSE LET list == c.freqToFreqList_[c.minFreq_]
         IN  IF isEmpty(list)
             THEN IF 1 \notin DOMAIN c.freqToFreqList_ THEN {[c EXCEPT !.crashed = TRUE]}
                  ELSE {decreaseFreqNum(eraseKey(c, junk), 1) : junk \in Keys \cup {NoKey}}
             ELSE LET node     == list[1]
                      unlinked == setList(c, c.minFreq_, RemoveAt(list, 1))
                  IN  {decreaseFreqNum(eraseKey(unlinked, node.key), c.minFreq_)}

\* putInternal after its eviction: insert the new node.
insertNode(room, key, value) ==
    LET set == setNode(room, key, Node(value))
    IN  IF room.crashed THEN {room}
        ELSE {[done EXCEPT !.minFreq_ = IF @ < 1 THEN @ ELSE 1] : done \in addFreqNum(addToFreqList(set, key))}

putInternal(c, key, value) ==
    LET rooms == IF Cardinality(DOMAIN c.nodeMap_) = c.capacity_ THEN kickOut(c) ELSE {c}
    IN  UNION {insertNode(room, key, value) : room \in rooms}

\* A put that leaves the value of a resident key as it was.
put_KeepsValue(c, key, value) ==
    IF c.capacity_ = 0 THEN {c}
    ELSE IF key \in DOMAIN c.nodeMap_
    THEN getInternal(c, key)
    ELSE putInternal(c, key, value)

\* void put(Key, Value): the states it may leave.
put(c, key, value) ==
    IF c.capacity_ = 0 THEN {c}
    ELSE IF key \in DOMAIN c.nodeMap_
    THEN getInternal(setNode(c, key, [c.nodeMap_[key] EXCEPT !.value = value]), key)
    ELSE putInternal(c, key, value)

\* bool get(Key, Value&): the states it may leave, each with the result.
get(c, key) ==
    IF key \in DOMAIN c.nodeMap_
    THEN {[cache |-> d, hit |-> TRUE, value |-> c.nodeMap_[key].value] : d \in getInternal(c, key)}
    ELSE {[cache |-> c, hit |-> FALSE, value |-> NoValue]}

\* A purge that forgets the frequency lists.
purge_MapOnly(c) == [c EXCEPT !.nodeMap_ = EmptyMap]

purge(c) == [c EXCEPT !.nodeMap_ = EmptyMap, !.freqToFreqList_ = EmptyMap]

\* ------------------------------------------------------------------------
\* zp-arcCache/ZPArcCacheNode.h
\* ------------------------------------------------------------------------

\* ArcNode(key, value): accessCount_ starts at 1.
ArcNode(value) == [value_ |-> value, accessCount_ |-> 1]

\* The setters the parts call (ZPArcLruPart.h:96 and 117, ZPArcLfuPart.h:99
\* and 128); the class leaves them out.
setValue(node, value) == [node EXCEPT !.value_ = value]

incrementAccessCount(node) == [node EXCEPT !.accessCount_ = @ + 1]

\* unordered_map: map[key] = x, map.erase(key).
assign(map, key, x) == [k \in DOMAIN map \cup {key} |-> IF k = key THEN x ELSE map[k]]

erase(map, key) == [k \in DOMAIN map \ {key} |-> map[k]]

\* Unlinking a node from a list: the one linked first, or the one linked last.
IndexOf(list, x) == CHOOSE i \in 1..Len(list) : list[i] = x /\ \A j \in 1..(i - 1) : list[j] # x

LastIndexOf(list, x) == CHOOSE i \in 1..Len(list) : list[i] = x /\ \A j \in (i + 1)..Len(list) : list[j] # x

Contains(list, x) == \E i \in 1..Len(list) : list[i] = x

unlinkFirst(list, x) == IF Contains(list, x) THEN RemoveAt(list, IndexOf(list, x)) ELSE list

unlinkLast(list, x) == IF Contains(list, x) THEN RemoveAt(list, LastIndexOf(list, x)) ELSE list

\* ------------------------------------------------------------------------
\* zp-arcCache/ZPArcLruPart.h.  mainList and ghostList are the two linked
\* lists, the node after the head sentinel first.
\* ------------------------------------------------------------------------

ArcLruPart(capacity, transformThreshold) ==
    [capacity_ |-> capacity, ghostCapacity_ |-> capacity, transformThreshold_ |-> transformThreshold,
     mainCache_ |-> EmptyMap, mainList |-> <<>>, ghostCache_ |-> {}, ghostList |-> <<>>]

LruPart_addToFront(p, key) == [p EXCEPT !.mainList = <<key>> \o @]

LruPart_moveToFront(p, key) ==
    LruPart_addToFront([p EXCEPT !.mainList = unlinkFirst(@, key)], key)

\* addToGhost: at the head of the ghost list.
LruPart_addToGhost(p, key) ==
    [p EXCEPT !.ghostList = <<key>> \o @, !.ghostCache_ = @ \cup {key}]

\* removeOldestGhost: the node before the tail sentinel.
LruPart_removeOldestGhost(p) ==
    IF p.ghostList = <<>> THEN p
    ELSE [p EXCEPT !.ghostList = SubSeq(@, 1, Len(@) - 1),
                   !.ghostCache_ = @ \ {p.ghostList[Len(p.ghostList)]}]

LruPart_evicitLeastRecent(p) ==
    IF p.mainList = <<>> THEN p
    ELSE LET leastRecent == p.mainList[Len(p.mainList)]
             unlinked    == [p EXCEPT !.mainList = SubSeq(@, 1, Len(@) - 1)]
             room        == IF Cardinality(unlinked.ghostCache_) >= unlinked.ghostCapacity_
                            THEN LruPart_removeOldestGhost(unlinked)
                            ELSE unlinked
             ghosted     == LruPart_addToGhost(room, leastRecent)
         IN  [ghosted EXCEPT !.mainCache_ = erase(@, leastRecent)]

LruPart_updateExistingNode(p, key, value) ==
    LruPart_moveToFront([p EXCEPT !.mainCache_ = assign(@, key, setValue(p.mainCache_[key], value))], key)

LruPart_addNewNode(p, key, value) ==
    LET room == IF Cardinality(DOMAIN p.mainCache_) >= p.capacity_
                THEN LruPart_evicitLeastRecent(p)
                ELSE p
    IN  LruPart_addToFront([room EXCEPT !.mainCache_ = assign(@, key, ArcNode(value))], key)

\* updateNodeAccess: the part after, and whether the node is to be promoted.
LruPart_updateNodeAccess(p, key) ==
    LET moved   == LruPart_moveToFront(p, key)
        counted == [moved EXCEPT !.mainCache_ = assign(@, key, incrementAccessCount(moved.mainCache_[key]))]
    IN  [part |-> counted,
         shouldTransform |-> counted.mainCache_[key].accessCount_ >= counted.transformThreshold_]

LruPart_put(p, key, value) ==
    IF p.capacity_ = 0 THEN p
    ELSE IF key \in DOMAIN p.mainCache_ THEN LruPart_updateExistingNode(p, key, value)
    ELSE LruPart_addNewNode(p, key, value)

\* get(key, value, shouldTransform): the part after, the result, the two
\* out-parameters (left as they were on a miss).
LruPart_get(p, key) ==
    IF key \in DOMAIN p.mainCache_
    THEN LET r == LruPart_updateNodeAccess(p, key)
         IN  [part |-> r.part, hit |-> TRUE, value |-> r.part.mainCache_[key].value_,
              shouldTransform |-> r.shouldTransform]
    ELSE [part |-> p, hit |-> FALSE, value |-> NoValue, shouldTransform |-> FALSE]

\* checkGhost: the node the ghost map holds for the key is the one linked last,
\* i.e. nearest the head.
LruPart_checkGhost(p, key) ==
    IF key \in p.ghostCache_
    THEN [part |-> [p EXCEPT !.ghostList = unlinkFirst(@, key), !.ghostCache_ = @ \ {key}],
          found |-> TRUE]
    ELSE [part |-> p, found |-> FALSE]

LruPart_increasCapacity(p) == [p EXCEPT !.capacity_ = @ + 1]

LruPart_decreaseCapacity(p) ==
    IF p.capacity_ <= 0 THEN [part |-> p, ok |-> FALSE]
    ELSE LET room == IF Cardinality(DOMAIN p.mainCache_) = p.capacity_
                     THEN LruPart_evicitLeastRecent(p)
                     ELSE p
         IN  [part |-> [room EXCEPT !.capacity_ = @ - 1], ok |-> TRUE]

\* ------------------------------------------------------------------------
\* zp-arcCache/ZPArcLfuPart.h.  freqMap_ maps a frequency to its std::list,
\* front first; ghostList is the ghost list, the node after the head
\* sentinel first.  An operation that evicts yields the set of parts it may
\* leave: freqMap_.begin() of an unordered_map is any of its entries.
\* ------------------------------------------------------------------------

ArcLfuPart(capacity, transformThreshold) ==
    [capacity_ |-> capacity, ghostCapacity_ |-> capacity, transformThreshold_ |-> transformThreshold,
     minFreq_ |-> 0, mainCache_ |-> EmptyMap, freqMap_ |-> EmptyMap, ghostCache_ |-> {}, ghostList |-> <<>>]

\* freqMap_[freq], the entry created empty when absent.
listOf(freqMap, freq) == IF freq \in DOMAIN freqMap THEN freqMap[freq] ELSE <<>>

LfuPart_updateNodeFrequency(p, key) ==
    LET oldFreq == p.mainCache_[key].accessCount_
        node    == incrementAccessCount(p.mainCache_[key])
        newFreq == node.accessCount_
        oldList == unlinkFirst(listOf(p.freqMap_, oldFreq), key)
        removed == IF oldList = <<>> THEN erase(p.freqMap_, oldFreq) ELSE assign(p.freqMap_, oldFreq, oldList)
        minFreq == IF oldList = <<>> /\ oldFreq = p.minFreq_ THEN newFreq ELSE p.minFreq_
    IN  [p EXCEPT !.mainCache_ = assign(@, key, node),
                  !.freqMap_ = assign(removed, newFreq, Append(listOf(removed, newFreq), key)),
                  !.minFreq_ = minFreq]

\* addToGhost: before the tail sentinel.
LfuPart_addToGhost(p, key) ==
    [p EXCEPT !.ghostList = Append(@, key), !.ghostCache_ = @ \cup {key}]

\* reMoveFromGhost of the node the ghost map holds: the one linked last.
LfuPart_reMoveFromGhost(p, key) == [p EXCEPT !.ghostList = unlinkLast(@, key)]

\* removeOldestGhost: the node after the head sentinel.
LfuPart_removeOldestGhost(p) ==
    IF p.ghostList = <<>> THEN p
    ELSE [p EXCEPT !.ghostList = Tail(@), !.ghostCache_ = @ \ {p.ghostList[1]}]

\* evictLeastFrequent after its node is unlinked: to the ghost list, out of the map.
LfuPart_toGhost(p, key) ==
    LET room == IF Cardinality(p.ghostCache_) >= p.ghostCapacity_
                THEN LfuPart_removeOldestGhost(p)
                ELSE p
        ghosted == LfuPart_addToGhost(room, key)
    IN  [ghosted EXCEPT !.mainCache_ = erase(@, key)]

LfuPart_evictLeastFrequent(p) ==
    IF DOMAIN p.freqMap_ = {} THEN {p}
    ELSE LET minFreqList == listOf(p.freqMap_, p.minFreq_)
         IN  IF minFreqList = <<>>
             THEN {[p EXCEPT !.freqMap_ = assign(@, p.minFreq_, <<>>)]}
             ELSE LET leastNode == Head(minFreqList)
                      popped    == Tail(minFreqList)
                      erased    == erase(p.freqMap_, p.minFreq_)
                  IN  IF popped # <<>>
                      THEN {LfuPart_toGhost([p EXCEPT !.freqMap_ = assign(@, p.minFreq_, popped)], leastNode)}
                      ELSE IF DOMAIN erased = {}
                      THEN {LfuPart_toGhost([p EXCEPT !.freqMap_ = erased], leastNode)}
                      ELSE {LfuPart_toGhost([p EXCEPT !.freqMap_ = erased, !.minFreq_ = first], leastNode) :
                                first \in DOMAIN erased}

LfuPart_updateExistingNode(p, key, value) ==
    LfuPart_updateNodeFrequency([p EXCEPT !.mainCache_ = assign(@, key, setValue(p.mainCache_[key], value))], key)

LfuPart_addNewNode(p, key, value) ==
    LET rooms == IF Cardinality(DOMAIN p.mainCache_) >= p.capacity_
                 THEN LfuPart_evictLeastFrequent(p)
                 ELSE {p}
    IN  {[room EXCEPT !.mainCache_ = assign(@, key, ArcNode(value)),
                      !.freqMap_ = assign(@, 1, Append(listOf(room.freqMap_, 1), key)),
                      !.minFreq_ = 1] : room \in rooms}

LfuPart_put(p, key, value) ==
    IF p.capacity_ = 0 THEN {p}
    ELSE IF key \in DOMAIN p.mainCache_ THEN {LfuPart_updateExistingNode(p, key, value)}
    ELSE LfuPart_addNewNode(p, key, value)

\* get(key, value): the part after, the result, the out-parameter.
LfuPart_get(p, key) ==
    IF key \in DOMAIN p.mainCache_
    THEN LET q == LfuPart_updateNodeFrequency(p, key)
         IN  [part |-> q, hit |-> TRUE, value |-> q.mainCache_[key].value_]
    ELSE [part |-> p, hit |-> FALSE, value |-> NoValue]

LfuPart_contain(p, key) == key \in DOMAIN p.mainCache_

LfuPart_checkGhost(p, key) ==
    IF key \in p.ghostCache_
    THEN [part |-> [LfuPart_reMoveFromGhost(p, key) EXCEPT !.ghostCache_ = @ \ {key}], found |-> TRUE]
    ELSE [part |-> p, found |-> FALSE]

LfuPart_increasCapacity(p) == [p EXCEPT !.capacity_ = @ + 1]

\* A decreaseCapacity that never evicts.
LfuPart_decreaseCapacity_NoEvict(p) ==
    IF p.capacity_ <= 0 THEN {[part |-> p, ok |-> FALSE]}
    ELSE {[part |-> [p EXCEPT !.capacity_ = @ - 1], ok |-> TRUE]}

LfuPart_decreaseCapacity(p) ==
    IF p.capacity_ <= 0 THEN {[part |-> p, ok |-> FALSE]}
    ELSE LET rooms == IF Cardinality(DOMAIN p.mainCache_) = p.capacity_
                      THEN LfuPart_evictLeastFrequent(p)
                      ELSE {p}
         IN  {[part |-> [room EXCEPT !.capacity_ = @ - 1], ok |-> TRUE] : room \in rooms}

\* ------------------------------------------------------------------------
\* zp-arcCache/ZPArcCache.h
\* ------------------------------------------------------------------------

ZPArcCache(capacity, transformThreshold) ==
    [capacity_ |-> capacity, transformThreshold_ |-> transformThreshold,
     lruPart_ |-> ArcLruPart(capacity, transformThreshold),
     lfuPart_ |-> ArcLfuPart(capacity, transformThreshold)]

\* Line 80 reads `lfuPart_>increaseCapacity();`.  As written it compares and
\* calls nothing on the LFU part; the call it stands for raises the LFU part's
\* capacity.  Both are followed.
Line80(p) == {p, LfuPart_increasCapacity(p)}

\* checkGhostCaches: the caches it may leave.  Its result is never used.
checkGhostCaches(a, key) ==
    LET inLru == LruPart_checkGhost(a.lruPart_, key)
        inLfu == LfuPart_checkGhost(a.lfuPart_, key)
    IN  IF inLru.found
        THEN {[a EXCEPT !.lfuPart_ = d.part,
                        !.lruPart_ = IF d.ok THEN LruPart_increasCapacity(inLru.part) ELSE inLru.part] :
                  d \in LfuPart_decreaseCapacity(a.lfuPart_)}
        ELSE IF inLfu.found
        THEN LET d == LruPart_decreaseCapacity(a.lruPart_)
             IN  IF d.ok
                 THEN {[a EXCEPT !.lruPart_ = d.part, !.lfuPart_ = q] : q \in Line80(inLfu.part)}
                 ELSE {[a EXCEPT !.lruPart_ = d.part, !.lfuPart_ = inLfu.part]}
        ELSE {a}

\* A put that writes the LRU part only.
putParts_LruOnly(a, key, value) ==
    {[a EXCEPT !.lruPart_ = LruPart_put(a.lruPart_, key, value)]}

\* After checkGhostCaches: lines 33-40 of put.
putParts(a, key, value) ==
    LET inLfu == LfuPart_contain(a.lfuPart_, key)
        lru   == LruPart_put(a.lruPart_, key, value)
    IN  IF inLfu
        THEN {[a EXCEPT !.lruPart_ = lru, !.lfuPart_ = q] : q \in LfuPart_put(a.lfuPart_, key, value)}
        ELSE {[a EXCEPT !.lruPart_ = lru]}

\* void put(Key, Value): the caches it may leave.
ZPArcCache_put(a, key, value) ==
    UNION {putParts(b, key, value) : b \in checkGhostCaches(a, key)}

\* After checkGhostCaches: lines 47-55 of get.  When the LRU part misses,
\* control flows off the end of a function returning bool: the result is any
\* bool, the out-parameter untouched.
getParts(a, key) ==
    LET r == LruPart_get(a.lruPart_, key)
        promoted == IF r.shouldTransform THEN LfuPart_put(a.lfuPart_, key, r.value) ELSE {a.lfuPart_}
    IN  IF r.hit
        THEN {LET g == LfuPart_get(q, key)
              IN  [cache |-> [a EXCEPT !.lruPart_ = r.part, !.lfuPart_ = g.part],
                   hit |-> g.hit,
                   value |-> IF g.hit THEN g.value ELSE r.value] : q \in promoted}
        ELSE {[cache |-> a, hit |-> any, value |-> NoValue] : any \in BOOLEAN}

\* bool get(Key, Value&): the caches it may leave, each with the result.
ZPArcCache_get(a, key) ==
    UNION {getParts(b, key) : b \in checkGhostCaches(a, key)}

\* ------------------------------------------------------------------------
\* The LFU engine as a state machine
\* ------------------------------------------------------------------------

\* The operation last called: its arguments, what it returned (hit, out), and
\* what the cache held when it was called (had: the value then stored under
\* key; size: the number of keys in the main map).
Call(op, key, value, hit, out, had, size) ==
    [op |-> op, key |-> key, value |-> value, hit |-> hit, out |-> out, had |-> had, size |-> size]

NoCall == Call("none", NoKey, NoValue, FALSE, NoValue, NoValue, 0)

Unused == [engine |-> "unused"]

\* The threads calling into an engine.  pc[t] is where thread t stands inside
\* a public operation ("idle": in none); mutex_ is the thread holding the
\* engine's std::mutex, or NoThread.
Threads == {"t1", "t2"}

NoThread == "nothread"

\* A position: the place in the code and the arguments of the call.
Pos(at, key, value) == [at |-> at, key |-> key, value |-> value]

Idle == Pos("idle", NoKey, NoValue)

\* threads with thread t at position pos and the mutex held by owner.
setPc(t, pos, owner) ==
    [pc |-> [u \in Threads |-> IF u = t THEN pos ELSE threads.pc[u]], mutex_ |-> owner]

AllIdle == [pc |-> [u \in Threads |-> Idle], mutex_ |-> NoThread]

\* A run with a single caller keeps no thread positions.
NoThreads == [pc |-> <<>>, mutex_ |-> NoThread]

stored(map, key) == IF key \in DOMAIN map THEN map[key].value ELSE NoValue

\* The running total may still grow.
LfuBudget == lfu.curTotalNum_ < (lfu.maxAverageNum_ + 1) * lfu.capacity_ + MaxOverrun

InitLfu ==
    /\ \E cfg \in LfuConfigs : lfu = ZPLfuCache(cfg[1], cfg[2])
    /\ lfuRes = NoCall
    /\ threads = NoThreads
    /\ arc = Unused

LfuPut(key, value) ==
    /\ ~lfu.crashed
    /\ LfuBudget
    /\ lfu' \in put(lfu, key, value)
    /\ lfuRes' = Call("put", key, value, FALSE, NoValue, stored(lfu.nodeMap_, key), Cardinality(DOMAIN lfu.nodeMap_))
    /\ UNCHANGED <<arc, threads>>

LfuGet(key) ==
    /\ ~lfu.crashed
    /\ LfuBudget
    /\ \E r \in get(lfu, key) :
          /\ lfu' = r.cache
          /\ lfuRes' = Call("get", key, NoValue, r.hit, r.value, stored(lfu.nodeMap_, key), Cardinality(DOMAIN lfu.nodeMap_))
    /\ UNCHANGED <<arc, threads>>

LfuPurge ==
    /\ ~lfu.crashed
    /\ lfu' = purge(lfu)
    /\ lfuRes' = Call("purge", NoKey, NoValue, FALSE, NoValue, NoValue, Cardinality(DOMAIN lfu.nodeMap_))
    /\ UNCHANGED <<arc, threads>>

NextLfu ==
    \/ \E key \in Keys, value \in Values : LfuPut(key, value)
    \/ \E key \in Keys : LfuGet(key)
    \/ LfuPurge

SpecLfu == InitLfu /\ [][NextLfu]_vars

\* The long run: one entry written and read until it is aged.
InitLfuLong ==
    /\ \E cfg \in LfuLongConfigs : lfu = ZPLfuCache(cfg[1], cfg[2])
    /\ lfuRes = NoCall
    /\ threads = NoThreads
    /\ arc = Unused

NextLfuLong ==
    \/ \E key \in LongKeys, value \in LongValues : LfuPut(key, value)
    \/ \E key \in LongKeys : LfuGet(key)

SpecLfuLong == InitLfuLong /\ [][NextLfuLong]_vars

\* ------------------------------------------------------------------------
\* The ARC engine as a state machine
\* ------------------------------------------------------------------------

lruMain == DOMAIN arc.lruPart_.mainCache_

lfuMain == DOMAIN arc.lfuPart_.mainCache_

lruGhost == arc.lruPart_.ghostCache_

lfuGhost == arc.lfuPart_.ghostCache_

\* No access count of the cache is past MaxAccessCount, no ghost list longer
\* than ghosts.
ArcBudget(a, ghosts) ==
    /\ \A k \in DOMAIN a.lruPart_.mainCache_ : a.lruPart_.mainCache_[k].accessCount_ <= MaxAccessCount
    /\ \A k \in DOMAIN a.lfuPart_.mainCache_ : a.lfuPart_.mainCache_[k].accessCount_ <= MaxAccessCount
    /\ Len(a.lruPart_.ghostList) <= ghosts
    /\ Len(a.lfuPart_.ghostList) <= ghosts

InitArc ==
    /\ \E cfg \in ArcConfigs : arc = ZPArcCache(cfg[1], cfg[2])
    /\ lfu = Unused
    /\ lfuRes = NoCall
    /\ threads = NoThreads

ArcPut(key, value, ghosts) ==
    /\ arc' \in ZPArcCache_put(arc, key, value)
    /\ ArcBudget(arc', ghosts)
    /\ UNCHANGED <<lfu, lfuRes, threads>>

ArcGet(key, ghosts) ==
    /\ \E r \in ZPArcCache_get(arc, key) : arc' = r.cache
    /\ ArcBudget(arc', ghosts)
    /\ UNCHANGED <<lfu, lfuRes, threads>>

NextArc ==
    \/ \E key \in Keys, value \in ArcValues : ArcPut(key, value, MaxGhostList)
    \/ \E key \in Keys : ArcGet(key, MaxGhostList)

SpecArc == InitArc /\ [][NextArc]_vars

\* The long ghost lists: one configuration, ghost lists up to LongGhostList.
InitArcGhost ==
    /\ \E cfg \in ArcGhostConfigs : arc = ZPArcCache(cfg[1], cfg[2])
    /\ lfu = Unused
    /\ lfuRes = NoCall
    /\ threads = NoThreads

NextArcGhost ==
    \/ \E key \in Keys, value \in ArcValues : ArcPut(key, value, LongGhostList)
    \/ \E key \in Keys : ArcGet(key, LongGhostList)

SpecArcGhost == InitArcGhost /\ [][NextArcGhost]_vars

\* Both engines side by side, among them the ones constructed with capacity 0.
InitZero ==
    /\ \E cfg \in ZeroLfuConfigs : lfu = ZPLfuCache(cfg[1], cfg[2])
    /\ \E cfg \in ZeroArcConfigs : arc = ZPArcCache(cfg[1], cfg[2])
    /\ lfuRes = NoCall
    /\ threads = NoThreads

NextZero == NextLfu \/ NextArc

SpecZero == InitZero /\ [][NextZero]_vars

\* ------------------------------------------------------------------------
\* The LFU engine called by two threads.  put and get take mutex_ with a
\* lock_guard (lines 99, 115) and run their body under it; purge (lines
\* 133-137) takes no lock and clears the two maps one after the other.
\* ------------------------------------------------------------------------

\* nodeMap_.clear() (line 135): the nodes stay linked in their lists.
clearMap(c) ==
    [c EXCEPT !.nodeMap_ = EmptyMap,
              !.freqToFreqList_ = [f \in DOMAIN c.freqToFreqList_ |->
                   [i \in 1..Len(c.freqToFreqList_[f]) |->
                       [key |-> c.freqToFreqList_[f][i].key, live |-> FALSE]]]]

\* freqToFreqList_.clear() (line 136).
clearLists(c) == [c EXCEPT !.freqToFreqList_ = EmptyMap]

\* Some thread other than t is inside an operation.
others(t) == \E u \in Threads \ {t} : threads.pc[u] # Idle

\* What thread t may leave of the outcomes S of its access: when another
\* thread is inside an operation the two accesses are a data race, and the
\* engine may also be left broken.
raced(t, S) == IF others(t) THEN S \cup {[lfu EXCEPT !.crashed = TRUE]} ELSE S

\* Every resident node has the list of its frequency.  A purge racing with a
\* put can leave a node without one; freqToFreqList_[freq] is then a null
\* pointer, which the next put or get is taken to dereference.
linked(c) == \A key \in DOMAIN c.nodeMap_ : c.nodeMap_[key].freq \in DOMAIN c.freqToFreqList_

\* The outcomes S of a put or get body of thread t, on the engine as it is.
body(t, S) == IF linked(lfu) THEN raced(t, S) ELSE {[lfu EXCEPT !.crashed = TRUE]}

InitLfuThreads ==
    /\ \E cfg \in LfuThreadConfigs : lfu = ZPLfuCache(cfg[1], cfg[2])
    /\ lfuRes = NoCall
    /\ arc = Unused
    /\ threads = AllIdle

\* put up to line 99: the capacity test, then the lock_guard.
LfuLockPut(t, key, value) ==
    /\ ~lfu.crashed
    /\ LfuBudget
    /\ threads.pc[t] = Idle
    /\ lfu.capacity_ # 0
    /\ threads.mutex_ = NoThread
    /\ threads' = setPc(t, Pos("put", key, value), t)
    /\ UNCHANGED <<lfu, lfuRes, arc>>

\* put from line 100 to its return, where the lock_guard unlocks.
LfuRunPut(t) ==
    /\ ~lfu.crashed
    /\ threads.pc[t].at = "put"
    /\ lfu' \in body(t, put(lfu, threads.pc[t].key, threads.pc[t].value))
    /\ threads' = setPc(t, Idle, NoThread)
    /\ UNCHANGED <<lfuRes, arc>>

\* get up to line 115.
LfuLockGet(t, key) ==
    /\ ~lfu.crashed
    /\ LfuBudget
    /\ threads.pc[t] = Idle
    /\ threads.mutex_ = NoThread
    /\ threads' = setPc(t, Pos("get", key, NoValue), t)
    /\ UNCHANGED <<lfu, lfuRes, arc>>

\* get from line 116 to its return.
LfuRunGet(t) ==
    /\ ~lfu.crashed
    /\ threads.pc[t].at = "get"
    /\ lfu' \in body(t, {r.cache : r \in get(lfu, threads.pc[t].key)})
    /\ threads' = setPc(t, Idle, NoThread)
    /\ UNCHANGED <<lfuRes, arc>>

\* purge, line 135.
LfuPurgeMap(t) ==
    /\ ~lfu.crashed
    /\ threads.pc[t] = Idle
    /\ lfu' \in raced(t, {clearMap(lfu)})
    /\ threads' = setPc(t, Pos("purge", NoKey, NoValue), threads.mutex_)
    /\ UNCHANGED <<lfuRes, arc>>

\* purge, line 136 and the return.
LfuPurgeLists(t) ==
    /\ ~lfu.crashed
    /\ threads.pc[t].at = "purge"
    /\ lfu' \in raced(t, {clearLists(lfu)})
    /\ threads' = setPc(t, Idle, threads.mutex_)
    /\ UNCHANGED <<lfuRes, arc>>

NextLfuThreads ==
    \E t \in Threads :
        \/ \E key \in LongKeys, value \in LongValues : LfuLockPut(t, key, value)
        \/ LfuRunPut(t)
        \/ \E key \in LongKeys : LfuLockGet(t, key)
        \/ LfuRunGet(t)
        \/ LfuPurgeMap(t)
        \/ LfuPurgeLists(t)

SpecLfuThreads == InitLfuThreads /\ [][NextLfuThreads]_vars

\* ------------------------------------------------------------------------
\* The ARC engine called by two threads.  ZPArcCache has no mutex of its own:
\* put and get call into the parts one call after the other, and only the
\* parts' put and get lock (the part's mutex_); checkGhost, contain,
\* decreaseCapacity and increasCapacity run unlocked.  Each thread makes one
\* call; a step is one statement of ZPArcCache::put or get.
\* ------------------------------------------------------------------------

\* A call, and the outcomes of making it alone: the cache after, get's result
\* and out-parameter.
Op(op, key, value) == [op |-> op, key |-> key, value |-> value]

apply(a, o) ==
    IF o.op = "put"
    THEN {[cache |-> c, hit |-> FALSE, value |-> NoValue] : c \in ZPArcCache_put(a, o.key, o.value)}
    ELSE ZPArcCache_get(a, o.key)

\* The calls a thread may make.
ArcOps ==
    {Op("put", key, value) : key \in Keys, value \in ArcValues} \cup {Op("get", key, NoValue) : key \in Keys}

\* The caches that up to n calls, one after the other, may leave of those in S.
RECURSIVE afterCalls(_, _)
afterCalls(S, n) ==
    IF n = 0 THEN S
    ELSE afterCalls(S \cup {r.cache : r \in UNION {apply(a, o) : a \in S, o \in ArcOps}}, n - 1)

\* Where a thread stands in its call: the statement it runs next, the call,
\* the locals inLfu / shouldTransform, and on return the result.
ArcPos(at, o, flag, hit, out) == [at |-> at, o |-> o, flag |-> flag, hit |-> hit, out |-> out]

ArcIdle == ArcPos("idle", Op("none", NoKey, NoValue), FALSE, FALSE, NoValue)

\* threads with thread t at position pos.
setArcPc(t, pos) ==
    [threads EXCEPT !.pc = [u \in Threads |-> IF u = t THEN pos ELSE threads.pc[u]]]

InitArcThreads ==
    /\ \E cfg \in ArcThreadConfigs : arc \in afterCalls({ZPArcCache(cfg[1], cfg[2])}, PrefixLen)
    /\ lfu = Unused
    /\ lfuRes = NoCall
    /\ threads = [pc |-> [u \in Threads |-> ArcIdle], base |-> arc]

\* put, line 30: checkGhostCaches(key).
ArcPutGhosts(t, o) ==
    /\ threads.pc[t] = ArcIdle
    /\ o.op = "put"
    /\ arc' \in checkGhostCaches(arc, o.key)
    /\ threads' = setArcPc(t, ArcPos("put33", o, FALSE, FALSE, NoValue))
    /\ UNCHANGED <<lfu, lfuRes>>

\* put, line 33: inLfu = lfuPart_->contain(key).
ArcPutContain(t) ==
    /\ threads.pc[t].at = "put33"
    /\ threads' = setArcPc(t, [threads.pc[t] EXCEPT !.at = "put35",
                                                     !.flag = LfuPart_contain(arc.lfuPart_, threads.pc[t].o.key)])
    /\ UNCHANGED <<lfu, lfuRes, arc>>

\* put, line 35: lruPart_->put(key, value); returns unless inLfu.
ArcPutLru(t) ==
    /\ threads.pc[t].at = "put35"
    /\ arc' = [arc EXCEPT !.lruPart_ = LruPart_put(arc.lruPart_, threads.pc[t].o.key, threads.pc[t].o.value)]
    /\ threads' = setArcPc(t, [threads.pc[t] EXCEPT !.at = IF threads.pc[t].flag THEN "put39" ELSE "done"])
    /\ UNCHANGED <<lfu, lfuRes>>

\* put, line 39: lfuPart_->put(key, value).
ArcPutLfu(t) ==
    /\ threads.pc[t].at = "put39"
    /\ \E q \in LfuPart_put(arc.lfuPart_, threads.pc[t].o.key, threads.pc[t].o.value) :
          arc' = [arc EXCEPT !.lfuPart_ = q]
    /\ threads' = setArcPc(t, [threads.pc[t] EXCEPT !.at = "done"])
    /\ UNCHANGED <<lfu, lfuRes>>

\* get, line 45: checkGhostCaches(key).
ArcGetGhosts(t, o) ==
    /\ threads.pc[t] = ArcIdle
    /\ o.op = "get"
    /\ arc' \in checkGhostCaches(arc, o.key)
    /\ threads' = setArcPc(t, ArcPos("get48", o, FALSE, FALSE, NoValue))
    /\ UNCHANGED <<lfu, lfuRes>>

\* get, line 48: lruPart_->get(key, value, shouldTransform); on a miss
\* control flows off the end and the result is any bool.
ArcGetLru(t) ==
    /\ threads.pc[t].at = "get48"
    /\ LET r == LruPart_get(arc.lruPart_, threads.pc[t].o.key)
       IN  /\ arc' = [arc EXCEPT !.lruPart_ = r.part]
           /\ IF r.hit
              THEN threads' = setArcPc(t, [threads.pc[t] EXCEPT !.at = IF r.shouldTransform THEN "get52" ELSE "get54",
                                                                !.flag = r.shouldTransform,
                                                                !.out = r.value])
              ELSE \E any \in BOOLEAN :
                      threads' = setArcPc(t, [threads.pc[t] EXCEPT !.at = "done", !.hit = any])
    /\ UNCHANGED <<lfu, lfuRes>>

\* get, line 52: lfuPart_->put(key, value).
ArcGetPromote(t) ==
    /\ threads.pc[t].at = "get52"
    /\ \E q \in LfuPart_put(arc.lfuPart_, threads.pc[t].o.key, threads.pc[t].out) :
          arc' = [arc EXCEPT !.lfuPart_ = q]
    /\ threads' = setArcPc(t, [threads.pc[t] EXCEPT !.at = "get54"])
    /\ UNCHANGED <<lfu, lfuRes>>

\* get, line 54: return lfuPart_->get(key, value).
ArcGetLfu(t) ==
    /\ threads.pc[t].at = "get54"
    /\ LET g == LfuPart_get(arc.lfuPart_, threads.pc[t].o.key)
       IN  /\ arc' = [arc EXCEPT !.lfuPart_ = g.part]
           /\ threads' = setArcPc(t, [threads.pc[t] EXCEPT !.at = "done",
                                                            !.hit = g.hit,
                                                            !.out = IF g.hit THEN g.value ELSE @])
    /\ UNCHANGED <<lfu, lfuRes>>

NextArcThreads ==
    \E t \in Threads :
        \/ \E o \in ArcOps : ArcPutGhosts(t, o)
        \/ ArcPutContain(t)
        \/ ArcPutLru(t)
        \/ ArcPutLfu(t)
        \/ \E o \in ArcOps : ArcGetGhosts(t, o)
        \/ ArcGetLru(t)
        \/ ArcGetPromote(t)
        \/ ArcGetLfu(t)

SpecArcThreads == InitArcThreads /\ [][NextArcThreads]_vars

\* ------------------------------------------------------------------------
\* The LFU engine read until it ages
\* ------------------------------------------------------------------------

\* The calls of the aging run are counted by curTotalNum_.
AgingBudget == lfu.curTotalNum_ < Cardinality(Keys) + ScenarioGets

InitLfuAging ==
    /\ \E cfg \in LfuAgingConfigs : lfu = ZPLfuCache(cfg[1], cfg[2])
    /\ lfuRes = NoCall
    /\ threads = NoThreads
    /\ arc = Unused

LfuAgingPut(key, value) ==
    /\ ~lfu.crashed
    /\ AgingBudget
    /\ lfu' \in put(lfu, key, value)
    /\ lfuRes' = Call("put", key, value, FALSE, NoValue, stored(lfu.nodeMap_, key), Cardinality(DOMAIN lfu.nodeMap_))
    /\ UNCHANGED <<arc, threads>>

LfuAgingGet(key) ==
    /\ ~lfu.crashed
    /\ AgingBudget
    /\ \E r \in get(lfu, key) :
          /\ lfu' = r.cache
          /\ lfuRes' = Call("get", key, NoValue, r.hit, r.value, stored(lfu.nodeMap_, key), Cardinality(DOMAIN lfu.nodeMap_))
    /\ UNCHANGED <<arc, threads>>

NextLfuAging ==
    \/ \E key \in Keys, value \in LongValues : LfuAgingPut(key, value)
    \/ \E key \in Keys : LfuAgingGet(key)

SpecLfuAging == InitLfuAging /\ [][NextLfuAging]_vars

\* One call of put or get: the caches it may leave.
lfuApply(c, key, isPut) ==
    IF isPut THEN put(c, key, CHOOSE value \in LongValues : TRUE) ELSE {r.cache : r \in get(c, key)}

\* The caches left by the calls calls[i..] made one after the other.
RECURSIVE lfuCalls(_, _, _)
lfuCalls(S, calls, i) ==
    IF i > Len(calls) THEN S
    ELSE lfuCalls(UNION {lfuApply(c, calls[i][1], calls[i][2]) : c \in S}, calls, i + 1)

\* put(a); put(b); put(c), then ScenarioGets times get(a), on a cache of
\* capacity 3 and maxAverageNum 4.
Scenario ==
    lfuCalls({ZPLfuCache(3, 4)},
             <<<<"a", TRUE>>, <<"b", TRUE>>, <<"c", TRUE>>>> \o [i \in 1..ScenarioGets |-> <<"a", FALSE>>], 1)

\* ------------------------------------------------------------------------
\* The ARC engine written with two values.  threads is the caller's side:
\* last is the call just made with its result (out is the out-parameter,
\* NoValue while the call has not written it), latest[k] the value of the
\* caller's most recent put of k.
\* ------------------------------------------------------------------------

Caller(op, key, hit, out, latest) ==
    [last |-> [op |-> op, key |-> key, hit |-> hit, out |-> out], latest |-> latest]

InitArcValues ==
    /\ \E cfg \in ArcValueConfigs : arc = ZPArcCache(cfg[1], cfg[2])
    /\ threads = Caller("none", NoKey, FALSE, NoValue, [k \in Keys |-> NoValue])
    /\ lfu = Unused
    /\ lfuRes = NoCall

ArcValuePut(key, value) ==
    /\ arc' \in ZPArcCache_put(arc, key, value)
    /\ ArcBudget(arc', MaxGhostList)
    /\ threads' = Caller("put", key, FALSE, NoValue,
                         [k \in Keys |-> IF k = key THEN value ELSE threads.latest[k]])
    /\ UNCHANGED <<lfu, lfuRes>>

ArcValueGet(key) ==
    /\ \E r \in ZPArcCache_get(arc, key) :
          /\ arc' = r.cache
          /\ threads' = Caller("get", key, r.hit, r.value, threads.latest)
    /\ ArcBudget(arc', MaxGhostList)
    /\ UNCHANGED <<lfu, lfuRes>>

\* The keys the caller uses: three on a cache of capacity 1, where keys push
\* each other out, two on a larger one, where both stay in both parts.
ValueKeys == IF arc.capacity_ = 1 THEN Keys ELSE LongKeys

NextArcValues ==
    \/ \E key \in ValueKeys, value \in TwoValues : ArcValuePut(key, value)
    \/ \E key \in ValueKeys : ArcValueGet(key)

SpecArcValues == InitArcValues /\ [][NextArcValues]_vars

\* The caches left by the calls calls[i..] made one after the other.
RECURSIVE arcCalls(_, _, _)
arcCalls(S, calls, i) ==
    IF i > Len(calls) THEN S
    ELSE arcCalls(UNION {{r.cache : r \in apply(a, calls[i])} : a \in S}, calls, i + 1)

\* ------------------------------------------------------------------------
\* The ARC engine after a warm-up.  put(a); put(b); put(c) fill the LRU part;
\* get(b) promotes b (frequency 2 in the LFU part); get(c); put(c) bring c
\* to frequency 3; get(a); put(a); put(a) bring a to frequency 4 and leave
\* b the least recent key of the LRU part.
\* ------------------------------------------------------------------------

WarmCalls ==
    LET value == CHOOSE v \in ArcValues : TRUE
    IN  <<Op("put", "a", value), Op("put", "b", value), Op("put", "c", value),
          Op("get", "b", NoValue),
          Op("get", "c", NoValue), Op("put", "c", value),
          Op("get", "a", NoValue), Op("put", "a", value), Op("put", "a", value)>>

WarmBudget(a) ==
    /\ \A k \in DOMAIN a.lruPart_.mainCache_ : a.lruPart_.mainCache_[k].accessCount_ <= MaxAccessCount
    /\ \A k \in DOMAIN a.lfuPart_.mainCache_ : a.lfuPart_.mainCache_[k].accessCount_ <= MaxWarmCount
    /\ Len(a.lruPart_.ghostList) <= WarmGhostList
    /\ Len(a.lfuPart_.ghostList) <= WarmGhostList

InitArcWarm ==
    /\ \E cfg \in WarmConfigs : arc \in arcCalls({ZPArcCache(cfg[1], cfg[2])}, WarmCalls, 1)
    /\ lfu = Unused
    /\ lfuRes = NoCall
    /\ threads = NoThreads

ArcWarmPut(key, value) ==
    /\ arc' \in ZPArcCache_put(arc, key, value)
    /\ WarmBudget(arc')
    /\ UNCHANGED <<lfu, lfuRes, threads>>

ArcWarmGet(key) ==
    /\ \E r \in ZPArcCache_get(arc, key) : arc' = r.cache
    /\ WarmBudget(arc')
    /\ UNCHANGED <<lfu, lfuRes, threads>>

NextArcWarm ==
    \/ \E key \in WarmKeys, value \in ArcValues : ArcWarmPut(key, value)
    \/ \E key \in WarmKeys : ArcWarmGet(key)

SpecArcWarm == InitArcWarm /\ [][NextArcWarm]_vars

\* ------------------------------------------------------------------------
\* Claims on the LFU engine
\* ------------------------------------------------------------------------

\* The engine never dereferences a null FreqList*, and curTotalNum_ (an int
\* divided by a size_t) never goes negative.
LfuWellDefined == ~lfu.crashed /\ lfu.curTotalNum_ >= 0

\* C1: with capacity >= 1 the main map never holds more than capacity keys.
C1_SizeAtMostCapacity ==
    lfu.capacity_ >= 1 => Cardinality(DOMAIN lfu.nodeMap_) <= lfu.capacity_

\* C2: right after put(k, v) on a cache of capacity >= 1, get(k) hits and
\* returns v, also when k was stored with another value before the put.
C2_PutThenGet ==
    (lfuRes.op = "put" /\ lfu.capacity_ >= 1) =>
        \A r \in get(lfu, lfuRes.key) : r.hit /\ r.value = lfuRes.value

\* C2 witness: a put has overwritten a different value of a resident key.
C2_Witness ==
    /\ lfuRes.op = "put"
    /\ lfu.capacity_ >= 1
    /\ lfuRes.had \in Values \ {lfuRes.value}

\* C10: right after purge the main map is empty, every frequency bucket is
\* empty, and get misses for every key.
C10_PurgeEmpties ==
    lfuRes.op = "purge" =>
        /\ DOMAIN lfu.nodeMap_ = {}
        /\ \A f \in DOMAIN lfu.freqToFreqList_ : isEmpty(lfu.freqToFreqList_[f])
        /\ \A key \in Keys : \A r \in get(lfu, key) : ~r.hit

\* C10 witness: purge was called on a cache that held keys.
C10_Witness == lfuRes.op = "purge" /\ lfuRes.size >= 2

\* C16: a put that inserts a new key into a full cache evicts one key; no
\* resident key had a smaller frequency, and the evicted key stood first in
\* the bucket of its frequency (it was appended there the earliest).
C16_EvictsOldestOfLeast ==
    [][(lfuRes'.op = "put" /\ lfu.capacity_ >= 1
            /\ lfuRes'.key \notin DOMAIN lfu.nodeMap_
            /\ Cardinality(DOMAIN lfu.nodeMap_) = lfu.capacity_)
        => \E victim \in DOMAIN lfu.nodeMap_ :
              LET freq == lfu.nodeMap_[victim].freq
              IN  /\ DOMAIN lfu'.nodeMap_ = (DOMAIN lfu.nodeMap_ \ {victim}) \cup {lfuRes'.key}
                  /\ \A key \in DOMAIN lfu.nodeMap_ : freq <= lfu.nodeMap_[key].freq
                  /\ lfu.freqToFreqList_[freq][1] = Linked(victim)]_vars

\* C17: after a put or a get (with or without an aging pass), when the main
\* map is not empty minFreq_ is the least frequency of a resident node: the
\* bucket at minFreq_ holds a node and no bucket below it does.
C17_MinFreqIsLeast ==
    (lfuRes.op \in {"put", "get"} /\ DOMAIN lfu.nodeMap_ # {}) =>
        /\ lfu.minFreq_ = SetMin({lfu.nodeMap_[key].freq : key \in DOMAIN lfu.nodeMap_})
        /\ lfu.minFreq_ \in DOMAIN lfu.freqToFreqList_
        /\ ~isEmpty(lfu.freqToFreqList_[lfu.minFreq_])
        /\ \A f \in DOMAIN lfu.freqToFreqList_ :
              f < lfu.minFreq_ => isEmpty(lfu.freqToFreqList_[f])

\* C18: a put or get that runs an aging pass leaves every resident node with
\* the frequency max(1, f - maxAverageNum_ \div 2), f being its frequency
\* when the pass began; each resident node is linked once, in the bucket of
\* its frequency, and the pass neither drops nor adds a key.  After put(a);
\* put(b); put(c) and ScenarioGets times get(a) at capacity 3 and
\* maxAverageNum 4, b and c have frequency 1, a has at least 1 and minFreq_
\* is 1.
C18_AgingPass ==
    [][/\ ((lfuRes'.op = "put" \/ (lfuRes'.op = "get" /\ lfuRes'.hit))
               /\ lfu'.curAverageNum_ > lfu'.maxAverageNum_)
           => LET key  == lfuRes'.key
                  was  == DOMAIN lfu.nodeMap_
                  now  == DOMAIN lfu'.nodeMap_
                  half == lfu.maxAverageNum_ \div 2
                  before(k) == IF k # key THEN lfu.nodeMap_[k].freq
                               ELSE IF k \in was THEN lfu.nodeMap_[k].freq + 1 ELSE 1
                  lowered(f) == IF f - half < 1 THEN 1 ELSE f - half
              IN  /\ key \in now
                  /\ now \ {key} \subseteq was
                  /\ (key \in was \/ Cardinality(was) < lfu.capacity_) => now = was \cup {key}
                  /\ \A k \in now : lfu'.nodeMap_[k].freq = lowered(before(k))
                  /\ \A k \in now : \A f \in DOMAIN lfu'.freqToFreqList_ :
                        Cardinality({i \in 1..Len(lfu'.freqToFreqList_[f]) : lfu'.freqToFreqList_[f][i] = Linked(k)})
                            = IF f = lfu'.nodeMap_[k].freq THEN 1 ELSE 0
       /\ lfu' \in Scenario
           => /\ lfu'.nodeMap_["b"].freq = 1
              /\ lfu'.nodeMap_["c"].freq = 1
              /\ lfu'.nodeMap_["a"].freq >= 1
              /\ lfu'.minFreq_ = 1]_vars

\* C18 witness: the scenario has been run to its end, and its last get aged.
C18_Witness ==
    /\ lfu \in Scenario
    /\ lfuRes.op = "get" /\ lfuRes.key = "a"
    /\ lfu.curAverageNum_ > lfu.maxAverageNum_

\* C19: an aging pass leaves curTotalNum_ as it is.  So when the last put or
\* get has aged the cache (curAverageNum_ is above maxAverageNum_), the next
\* get hit or overwriting put counts one more access, finds the average above
\* maxAverageNum_ again and ages again: every resident frequency is lowered
\* as an aging pass lowers it.
C19_AgingRepeats ==
    [][(/\ lfu.curAverageNum_ > lfu.maxAverageNum_
        /\ lfuRes'.op \in {"put", "get"}
        /\ lfuRes'.key \in DOMAIN lfu.nodeMap_)
        => LET key  == lfuRes'.key
               half == lfu.maxAverageNum_ \div 2
               before(k) == IF k = key THEN lfu.nodeMap_[k].freq + 1 ELSE lfu.nodeMap_[k].freq
               lowered(f) == IF f - half < 1 THEN 1 ELSE f - half
           IN  /\ lfu'.curTotalNum_ = lfu.curTotalNum_ + 1
               /\ lfu'.curAverageNum_ = lfu'.curTotalNum_ \div Cardinality(DOMAIN lfu'.nodeMap_)
               /\ lfu'.curAverageNum_ > lfu'.maxAverageNum_
               /\ DOMAIN lfu'.nodeMap_ = DOMAIN lfu.nodeMap_
               /\ \A k \in DOMAIN lfu'.nodeMap_ : lfu'.nodeMap_[k].freq = lowered(before(k))]_vars

\* C19 witness: a get hit has aged a cache of two keys that the call before
\* it had aged too; aging lowers a frequency by at least 1 there.
C19_Witness ==
    /\ lfuRes.op = "get" /\ lfuRes.hit
    /\ Cardinality(DOMAIN lfu.nodeMap_) = 2
    /\ lfu.curAverageNum_ > lfu.maxAverageNum_
    /\ (lfu.curTotalNum_ - 1) \div 2 > lfu.maxAverageNum_
    /\ \E key \in DOMAIN lfu.nodeMap_ : lfu.nodeMap_[key].freq >= 2

\* ------------------------------------------------------------------------
\* Claims on the ARC engine
\* ------------------------------------------------------------------------

\* C3: a step that put(k, v) can take on a cache of capacity >= 1 leaves a
\* cache on which get(k) returns hit with v.
C3_ArcPutThenGet ==
    [][\A key \in Keys, value \in ArcValues :
          (arc.capacity_ >= 1 /\ arc' \in ZPArcCache_put(arc, key, value)) =>
              \A r \in ZPArcCache_get(arc', key) : r.hit /\ r.value = value]_vars

\* C4: the two main maps together hold at most capacity_ distinct keys.
C4_ArcAtMostCapacity == Cardinality(lruMain \cup lfuMain) <= arc.capacity_

\* C5: the capacities of the two parts add up to what they added up to at
\* construction, twice the configured capacity.
C5_CapacitySumConstant ==
    arc.lruPart_.capacity_ + arc.lfuPart_.capacity_ = 2 * arc.capacity_

\* C6: each part holds at most as many main-map keys as its current capacity.
C6_PartsWithinCapacity ==
    /\ Cardinality(lruMain) <= arc.lruPart_.capacity_
    /\ Cardinality(lfuMain) <= arc.lfuPart_.capacity_

\* C6 witness: the LFU part has given capacity away, evicted into its ghost
\* list, and is full at its lowered capacity.
C6_Witness ==
    /\ arc.lfuPart_.capacity_ < arc.capacity_
    /\ Cardinality(lfuMain) = arc.lfuPart_.capacity_
    /\ lfuMain # {}
    /\ lfuGhost # {}

\* C7: with capacity >= 1 each ghost map holds at most capacity_ keys, and
\* when a ghost map is full, so that the next addToGhost overflows, the key
\* removeOldestGhost drops from it is the one whose node entered the ghost
\* list earliest (the LRU part links at the head, the LFU part at the tail).
C7_GhostBoundedFifo ==
    LET p == arc.lruPart_
        q == arc.lfuPart_
    IN  arc.capacity_ >= 1 =>
            /\ Cardinality(p.ghostCache_) <= arc.capacity_
            /\ Cardinality(q.ghostCache_) <= arc.capacity_
            /\ Cardinality(p.ghostCache_) >= p.ghostCapacity_ =>
                   \E d \in p.ghostCache_ :
                       /\ \A k \in p.ghostCache_ : IndexOf(p.ghostList, d) >= IndexOf(p.ghostList, k)
                       /\ LruPart_removeOldestGhost(p).ghostCache_ = p.ghostCache_ \ {d}
            /\ Cardinality(q.ghostCache_) >= q.ghostCapacity_ =>
                   \E d \in q.ghostCache_ :
                       /\ \A k \in q.ghostCache_ : LastIndexOf(q.ghostList, d) <= LastIndexOf(q.ghostList, k)
                       /\ LfuPart_removeOldestGhost(q).ghostCache_ = q.ghostCache_ \ {d}

\* C8: no key is in a main map and in a ghost map at once, of either part.
C8_MainGhostDisjoint == (lruMain \cup lfuMain) \cap (lruGhost \cup lfuGhost) = {}

\* C9: the main map and the ghost map of one part are disjoint.
C9_SamePartDisjoint == lruMain \cap lruGhost = {} /\ lfuMain \cap lfuGhost = {}

\* ------------------------------------------------------------------------
\* Claims on both engines
\* ------------------------------------------------------------------------

\* C11: on an engine of capacity 0, LFU or ARC, every put leaves the engine
\* as it is and every get misses and leaves the engine as it is.
C11_CapacityZero ==
    /\ lfu.capacity_ = 0 =>
          \A key \in Keys :
              /\ \A value \in Values : put(lfu, key, value) = {lfu}
              /\ \A r \in get(lfu, key) : ~r.hit /\ r.cache = lfu
    /\ arc.capacity_ = 0 =>
          \A key \in Keys :
              /\ \A value \in ArcValues : ZPArcCache_put(arc, key, value) = {arc}
              /\ \A r \in ZPArcCache_get(arc, key) : ~r.hit /\ r.cache = arc

\* C12: one put removes at most one key from the main maps: from nodeMap_ in
\* the LFU engine, from the two parts' main maps together in the ARC engine.
C12_OneEvictionPerPut ==
    [][/\ (lfu # Unused /\ lfuRes'.op = "put") =>
              Cardinality(DOMAIN lfu.nodeMap_ \ DOMAIN lfu'.nodeMap_) <= 1
       /\ (arc # Unused /\ \E key \in Keys, value \in ArcValues : arc' \in ZPArcCache_put(arc, key, value)) =>
              Cardinality(DOMAIN arc.lruPart_.mainCache_ \ DOMAIN arc'.lruPart_.mainCache_)
                + Cardinality(DOMAIN arc.lfuPart_.mainCache_ \ DOMAIN arc'.lfuPart_.mainCache_) <= 1]_vars

\* ------------------------------------------------------------------------
\* Further claims on the ARC engine
\* ------------------------------------------------------------------------

\* get(key) where the LRU part's lookup hits: the caches it may leave.
getHits(a, key) ==
    UNION {{r.cache : r \in getParts(b, key)} :
              b \in {b \in checkGhostCaches(a, key) : key \in DOMAIN b.lruPart_.mainCache_}}

\* The caches n such gets in a row may leave, starting from one of S.
RECURSIVE afterHits(_, _, _)
afterHits(S, key, n) ==
    IF n = 0 THEN S ELSE afterHits(UNION {getHits(a, key) : a \in S}, key, n - 1)

\* C13: a key in neither main map that put inserts is in the LRU part only;
\* it is not in the LFU part after fewer than transformThreshold_ get hits in
\* the LRU part, and it is after the transformThreshold_-th (unless the LFU
\* part has capacity 0 and stores nothing).
C13_PromotedOnThreshold ==
    \A key \in Keys \ (lruMain \cup lfuMain), value \in ArcValues :
        \A b \in ZPArcCache_put(arc, key, value) :
            key \in DOMAIN b.lruPart_.mainCache_ =>
                /\ key \notin DOMAIN b.lfuPart_.mainCache_
                /\ \A n \in 1..(arc.transformThreshold_ - 1) :
                      \A c \in afterHits({b}, key, n) : key \notin DOMAIN c.lfuPart_.mainCache_
                /\ \A c \in afterHits({b}, key, arc.transformThreshold_) :
                      key \in DOMAIN c.lfuPart_.mainCache_ \/ c.lfuPart_.capacity_ = 0

\* ------------------------------------------------------------------------
\* Claims on the engines called by two threads
\* ------------------------------------------------------------------------

\* C14: a thread inside a public operation of the LFU engine, reading or
\* writing nodeMap_ or freqToFreqList_, holds mutex_; so no two threads are
\* inside an operation at the same time.
C14_LfuMutexHeld ==
    /\ \A t \in Threads : threads.pc[t] # Idle => threads.mutex_ = t
    /\ Cardinality({t \in Threads : threads.pc[t] # Idle}) <= 1

\* C15: when two threads have each made one call on the ARC engine, the cache
\* and the two results are what the two calls made one after the other, in
\* one of the two orders, could have left.
C15_ArcLinearizable ==
    (\A t \in Threads : threads.pc[t].at = "done") =>
        LET p1 == threads.pc["t1"]
            p2 == threads.pc["t2"]
        IN  \/ \E r1 \in apply(threads.base, p1.o) : \E r2 \in apply(r1.cache, p2.o) :
                  /\ r2.cache = arc
                  /\ r1.hit = p1.hit /\ r1.value = p1.out
                  /\ r2.hit = p2.hit /\ r2.value = p2.out
            \/ \E r2 \in apply(threads.base, p2.o) : \E r1 \in apply(r2.cache, p1.o) :
                  /\ r1.cache = arc
                  /\ r1.hit = p1.hit /\ r1.value = p1.out
                  /\ r2.hit = p2.hit /\ r2.value = p2.out

\* ------------------------------------------------------------------------
\* The ghost hit of the ARC engine
\* ------------------------------------------------------------------------

\* put(a); put(b); put(c); put(a) on a cache of capacity 2.
GhostScenario ==
    arcCalls({ZPArcCache(cfg[1], cfg[2]) : cfg \in {c \in ArcConfigs : c[1] = 2}},
             [i \in 1..4 |-> Op("put", <<"a", "b", "c", "a">>[i], CHOOSE value \in ArcValues : TRUE)], 1)

\* C20: a put or get of a key of the LRU part's ghost map takes the key out
\* of that map and, when the LFU part's capacity is above 0, moves one unit
\* of capacity from the LFU part to the LRU part (else both capacities stay);
\* a put or get of a key of the LFU part's ghost map only does the same with
\* the parts exchanged.  After put(a); put(b); put(c); put(a) at capacity 2
\* the LRU part's capacity is 3 and the LFU part's is 1.
C20_GhostHitShiftsCapacity ==
    /\ \A key \in Keys :
          \A b \in UNION {ZPArcCache_put(arc, key, value) : value \in ArcValues} \cup {r.cache : r \in ZPArcCache_get(arc, key)} :
              LET lru == arc.lruPart_.capacity_
                  lfu2 == arc.lfuPart_.capacity_
              IN  /\ key \in lruGhost =>
                        /\ key \notin b.lruPart_.ghostCache_
                        /\ b.lruPart_.capacity_ = IF lfu2 > 0 THEN lru + 1 ELSE lru
                        /\ b.lfuPart_.capacity_ = IF lfu2 > 0 THEN lfu2 - 1 ELSE lfu2
                  /\ (key \in lfuGhost \ lruGhost) =>
                        /\ key \notin b.lfuPart_.ghostCache_
                        /\ b.lfuPart_.capacity_ = IF lru > 0 THEN lfu2 + 1 ELSE lfu2
                        /\ b.lruPart_.capacity_ = IF lru > 0 THEN lru - 1 ELSE lru
    /\ arc \in GhostScenario => arc.lruPart_.capacity_ = 3 /\ arc.lfuPart_.capacity_ = 1

\* ------------------------------------------------------------------------
\* Values in the ARC engine
\* ------------------------------------------------------------------------

leastCount(p) == SetMin({p.mainCache_[key].accessCount_ : key \in DOMAIN p.mainCache_})

\* minFreq_ is the least frequency with a non-empty list, which is the least
\* access count of a resident key.
cursorRight(p) ==
    DOMAIN p.mainCache_ # {} =>
        /\ p.minFreq_ = leastCount(p)
        /\ listOf(p.freqMap_, p.minFreq_) # <<>>
        /\ \A f \in DOMAIN p.freqMap_ : f < p.minFreq_ => p.freqMap_[f] = <<>>

\* C22: minFreq_ of the LFU part is always the least frequency with a
\* non-empty list, also after an eviction has emptied the list at minFreq_;
\* and when the part is at capacity, so that an insert of a new key or
\* decreaseCapacity evicts, evictLeastFrequent removes one key whose access
\* count is the least in the main map.
C22_EvictsLeastFrequent ==
    LET p == arc.lfuPart_
    IN  /\ cursorRight(p)
        /\ (p.capacity_ >= 1 /\ Cardinality(DOMAIN p.mainCache_) = p.capacity_) =>
              \A q \in LfuPart_evictLeastFrequent(p) :
                  \E key \in DOMAIN p.mainCache_ :
                      /\ DOMAIN q.mainCache_ = DOMAIN p.mainCache_ \ {key}
                      /\ p.mainCache_[key].accessCount_ = leastCount(p)

====
